---- MODULE Spec2Model ----
(***************************************************************************)
(* Model of the incrementally resized hash map of                          *)
(* structs/src/hmap (HMap over two BucketLists), and of the generational   *)
(* allocator and the entity store of ecs (GenManager, VecStore).           *)
(*                                                                         *)
(* Bucket vectors are TLA+ sequences, so the 0-based index i of the code   *)
(* is position i + 1 here.  An Option is a sequence of length at most 1:   *)
(* None is << >> and Some(v) is << v >>.                                    *)
(***************************************************************************)
EXTENDS Integers, Sequences, FiniteSets

(***************************************************************************)
(* Bounds of the model.                                                    *)
(***************************************************************************)
\* keys are 1..MaxKey
MaxKey == 10
\* values are 1..MaxVal.  V has no trait bound, so the map cannot look at a
\* value: 1 is the common value and the other values tag one key at a time,
\* which tells that key's entry from every other entry
MaxVal == 2
\* seeds are 0..MaxSeed
MaxSeed == 2
\* hash values are 0..2^HashBits - 1
HashBits == 3

\* ecs: a GenManager or VecStore has slots 0..MaxSlots - 1
MaxSlots == 2
\* ecs: generations are 0..MaxGen
MaxGen == 1
\* ecs: stored values are 1..MaxT
MaxT == 2

Keys == 1..MaxKey
Values == 1..MaxVal
Seeds == 0..MaxSeed
HashRange == 2 ^ HashBits

\* bucket_list.rs: pub(super) const BSIZE: usize = 8;
BSIZE == 8

None == << >>
Some(v) == << v >>

VARIABLES
    n_moved,    \* HMap.n_moved
    main,       \* HMap.main : BucketList
    grow,       \* HMap.grow : BucketList
    panicked,   \* TRUE once a call has hit a failed internal check
    op,         \* the last call: its name; of an insert, the arguments, the value
                \* the key held before and the branch taken; of a get, the result
    shadow,     \* history: the last value written for each key (None: never inserted)
    started,    \* history: the number of keys in the map right after the insert
                \* that started the last migration (0: none has started)
    gm,         \* ecs: a GenManager [items, drops]
    vs,         \* ecs: VecStore.items
    eop,        \* ecs: the last call: its name, its GenData, its result
    issued      \* ecs history: the GenData that gm.next() has returned

hmap_vars == << n_moved, main, grow, panicked, op, shadow, started >>

ecs_vars == << gm, vs, eop, issued >>

vars == << hmap_vars, ecs_vars >>

(***************************************************************************)
(* hasher::hash(seed, k).  The key type only has to be Hash + Eq, so the   *)
(* family covers a key type that feeds nothing to the hasher (seeds 0 and  *)
(* 1: every key hashes to 0, respectively to 1, so with two or more        *)
(* buckets bucket 0 holds everything, respectively nothing) and even       *)
(* spreads (seeds 2 and 3: k and k + 1).                                   *)
(***************************************************************************)
hash(seed, k) == (((seed \div 2) * k) + (seed % 2)) % HashRange

(***************************************************************************)
(* BucketList                                                              *)
(***************************************************************************)
\* new that allocates BSIZE buckets
BucketList_new_bsize(seed) ==
    [seed |-> seed, len |-> 0, buckets |-> [i \in 1..BSIZE |-> << >>]]

BucketList_new(seed) == [seed |-> seed, len |-> 0, buckets |-> << << >> >>]

BucketList_len(bl) == bl.len

b_len(bl) == Len(bl.buckets)

\* let h = (hash(self.seed, &k) as usize) % self.buckets.len();
h_of(bl, k) == (hash(bl.seed, k) % Len(bl.buckets)) + 1

\* position of the first entry of the chain whose key is k, 0 if there is none
RECURSIVE scan(_, _, _)
scan(chain, k, i) ==
    IF i > Len(chain) THEN 0
    ELSE IF chain[i][1] = k THEN i
    ELSE scan(chain, k, i + 1)

\* push that forgets  self.len += 1
push_no_count(bl, k, v) ==
    LET h == h_of(bl, k)
        nb == [bl EXCEPT !.buckets[h] = Append(@, << k, v >>)]
    IN  [bl |-> nb, ret |-> Len(nb.buckets[h])]

\* push that leaves the bank alone when the chain already holds the key
push_checks_duplicate(bl, k, v) ==
    LET h == h_of(bl, k)
        nb == IF \E j \in 1..Len(bl.buckets[h]) : bl.buckets[h][j][1] = k
              THEN bl
              ELSE [bl EXCEPT !.buckets[h] = Append(@, << k, v >>), !.len = @ + 1]
    IN  [bl |-> nb, ret |-> Len(nb.buckets[h])]

push(bl, k, v) ==
    LET h == h_of(bl, k)
        nb == [bl EXCEPT !.buckets[h] = Append(@, << k, v >>), !.len = @ + 1]
    IN  [bl |-> nb, ret |-> Len(nb.buckets[h])]

BucketList_get(bl, k) ==
    LET chain == bl.buckets[h_of(bl, k)]
        i == scan(chain, k, 1)
    IN  IF i = 0 THEN None ELSE Some(chain[i][2])

\* get_mut that hands out the first entry of the chain instead of the match
BucketList_get_mut_set_first(bl, k, v) ==
    LET h == h_of(bl, k)
        i == scan(bl.buckets[h], k, 1)
    IN  IF i = 0 THEN bl
        ELSE [bl EXCEPT !.buckets[h][1] = << bl.buckets[h][1][1], v >>]

\* get_mut: the place <<bucket, position>> of the entry the returned &mut V
\* points into, None if the chain holds no entry for k
BucketList_get_mut(bl, k) ==
    LET h == h_of(bl, k)
        i == scan(bl.buckets[h], k, 1)
    IN  IF i = 0 THEN None ELSE Some(<< h, i >>)

\* get_mut followed by the caller's  *iv = v
BucketList_get_mut_set(bl, k, v) ==
    LET h == h_of(bl, k)
        i == scan(bl.buckets[h], k, 1)
    IN  IF i = 0 THEN bl ELSE [bl EXCEPT !.buckets[h][i] = << k, v >>]

\* bucket that clones the chain instead of swapping it out
bucket_clone(bl, n) ==
    IF n >= Len(bl.buckets)
    THEN [some |-> FALSE, res |-> << >>, bl |-> bl, underflow |-> FALSE]
    ELSE LET res == bl.buckets[n + 1]
         IN  IF bl.len < Len(res)
             THEN [some |-> TRUE, res |-> res, bl |-> bl, underflow |-> TRUE]
             ELSE [some |-> TRUE, res |-> res,
                   bl |-> [bl EXCEPT !.len = @ - Len(res)], underflow |-> FALSE]

\* bucket that answers an out-of-range n with an empty chain instead of None
bucket_unbounded(bl, n) ==
    IF n >= Len(bl.buckets)
    THEN [some |-> TRUE, res |-> << >>, bl |-> bl, underflow |-> FALSE]
    ELSE LET res == bl.buckets[n + 1]
         IN  IF bl.len < Len(res)
             THEN [some |-> TRUE, res |-> res,
                   bl |-> [bl EXCEPT !.buckets[n + 1] = << >>], underflow |-> TRUE]
             ELSE [some |-> TRUE, res |-> res,
                   bl |-> [bl EXCEPT !.buckets[n + 1] = << >>, !.len = @ - Len(res)],
                   underflow |-> FALSE]

\* bucket that takes the last bucket for out of range: n + 1 >= len
bucket_off_by_one(bl, n) ==
    IF n + 1 >= Len(bl.buckets)
    THEN [some |-> FALSE, res |-> << >>, bl |-> bl, underflow |-> FALSE]
    ELSE LET res == bl.buckets[n + 1]
         IN  IF bl.len < Len(res)
             THEN [some |-> TRUE, res |-> res,
                   bl |-> [bl EXCEPT !.buckets[n + 1] = << >>], underflow |-> TRUE]
             ELSE [some |-> TRUE, res |-> res,
                   bl |-> [bl EXCEPT !.buckets[n + 1] = << >>, !.len = @ - Len(res)],
                   underflow |-> FALSE]

\* bucket that answers None for an empty chain
bucket_none_when_empty(bl, n) ==
    IF n >= Len(bl.buckets) \/ bl.buckets[n + 1] = << >>
    THEN [some |-> FALSE, res |-> << >>, bl |-> bl, underflow |-> FALSE]
    ELSE LET res == bl.buckets[n + 1]
         IN  IF bl.len < Len(res)
             THEN [some |-> TRUE, res |-> res,
                   bl |-> [bl EXCEPT !.buckets[n + 1] = << >>], underflow |-> TRUE]
             ELSE [some |-> TRUE, res |-> res,
                   bl |-> [bl EXCEPT !.buckets[n + 1] = << >>, !.len = @ - Len(res)],
                   underflow |-> FALSE]

\* bucket that counts the chains from the end: it takes chain len - 1 - n
bucket_from_end(bl, n) ==
    IF n >= Len(bl.buckets)
    THEN [some |-> FALSE, res |-> << >>, bl |-> bl, underflow |-> FALSE]
    ELSE LET m == Len(bl.buckets) - n
             res == bl.buckets[m]
         IN  IF bl.len < Len(res)
             THEN [some |-> TRUE, res |-> res,
                   bl |-> [bl EXCEPT !.buckets[m] = << >>], underflow |-> TRUE]
             ELSE [some |-> TRUE, res |-> res,
                   bl |-> [bl EXCEPT !.buckets[m] = << >>, !.len = @ - Len(res)],
                   underflow |-> FALSE]

\* bucket that forgets  self.len -= res.len()
bucket_keeps_len(bl, n) ==
    IF n >= Len(bl.buckets)
    THEN [some |-> FALSE, res |-> << >>, bl |-> bl, underflow |-> FALSE]
    ELSE LET res == bl.buckets[n + 1]
         IN  [some |-> TRUE, res |-> res,
              bl |-> [bl EXCEPT !.buckets[n + 1] = << >>], underflow |-> FALSE]

\* n is the 0-based bucket number; underflow: self.len -= res.len() fails
bucket(bl, n) ==
    IF n >= Len(bl.buckets)
    THEN [some |-> FALSE, res |-> << >>, bl |-> bl, underflow |-> FALSE]
    ELSE LET res == bl.buckets[n + 1]
         IN  IF bl.len < Len(res)
             THEN [some |-> TRUE, res |-> res,
                   bl |-> [bl EXCEPT !.buckets[n + 1] = << >>], underflow |-> TRUE]
             ELSE [some |-> TRUE, res |-> res,
                   bl |-> [bl EXCEPT !.buckets[n + 1] = << >>, !.len = @ - Len(res)],
                   underflow |-> FALSE]

\* set_buckets that appends n chains instead of growing to n chains
set_buckets_append_n(bl, n) ==
    [bl EXCEPT !.buckets = @ \o [i \in 1..n |-> << >>]]

\* set_buckets whose range is inclusive: self.buckets.len()..=n
set_buckets_inclusive(bl, n) ==
    IF Len(bl.buckets) > n THEN bl
    ELSE [bl EXCEPT !.buckets = @ \o [i \in 1..((n + 1) - Len(@)) |-> << >>]]

\* set_buckets that truncates a bank of more than n buckets
set_buckets_resize(bl, n) ==
    IF Len(bl.buckets) >= n THEN [bl EXCEPT !.buckets = SubSeq(@, 1, n)]
    ELSE [bl EXCEPT !.buckets = @ \o [i \in 1..(n - Len(@)) |-> << >>]]

set_buckets(bl, n) ==
    IF Len(bl.buckets) >= n THEN bl
    ELSE [bl EXCEPT !.buckets = @ \o [i \in 1..(n - Len(@)) |-> << >>]]

(***************************************************************************)
(* HMap, as a record [n_moved, main, grow, panicked, path].  panicked is   *)
(* set by a failed internal check (an index into an empty bucket vector,   *)
(* an underflow of len); path names the branch the last insert took.       *)
(***************************************************************************)
HMap_new(s1, s2) ==
    [n_moved |-> 0, main |-> BucketList_new(s1), grow |-> BucketList_new(s2),
     panicked |-> FALSE, path |-> "none"]

Panic(self) == [self EXCEPT !.panicked = TRUE]

\* replay that stops after BSIZE / 2 entries of the bucket
RECURSIVE push_all_stops_at_threshold(_, _, _)
push_all_stops_at_threshold(bl, b, i) ==
    IF i > Len(b) \/ i > BSIZE \div 2 THEN bl
    ELSE push_all_stops_at_threshold(push(bl, b[i][1], b[i][2]).bl, b, i + 1)

\* for (k, v) in b { self.grow.push(k, v); }
RECURSIVE push_all(_, _, _)
push_all(bl, b, i) ==
    IF i > Len(b) THEN bl
    ELSE push_all(push(bl, b[i][1], b[i][2]).bl, b, i + 1)

\* move_bucket that takes the bucket and forgets to replay it into grow
move_bucket_no_replay(self) ==
    LET s1 == IF self.n_moved = 0
              THEN [self EXCEPT !.grow = set_buckets(@, b_len(self.main) * 2)]
              ELSE self
        b == bucket(s1.main, s1.n_moved)
    IN  IF b.underflow THEN Panic(s1)
        ELSE IF b.some
        THEN [s1 EXCEPT !.main = b.bl, !.n_moved = @ + 1,
                        !.path = IF s1.n_moved = 0 THEN "start" ELSE "drain"]
        ELSE [s1 EXCEPT !.main = s1.grow, !.grow = s1.main, !.n_moved = 0,
                        !.path = "swap"]

\* move_bucket that catches up: a drain step is followed by a second step
move_bucket_two_steps(self) ==
    LET one(s) ==
            LET s1 == IF s.n_moved = 0
                      THEN [s EXCEPT !.grow = set_buckets(@, b_len(s.main) * 2)]
                      ELSE s
                b == bucket(s1.main, s1.n_moved)
            IN  IF b.underflow THEN Panic(s1)
                ELSE IF b.some
                THEN [s1 EXCEPT !.main = b.bl,
                                !.grow = push_all(@, b.res, 1),
                                !.n_moved = @ + 1,
                                !.path = IF s1.n_moved = 0 THEN "start" ELSE "drain"]
                ELSE [s1 EXCEPT !.main = s1.grow, !.grow = s1.main, !.n_moved = 0,
                                !.path = "swap"]
        r1 == one(self)
    IN  IF r1.path = "drain" /\ ~r1.panicked THEN one(r1) ELSE r1

\* move_bucket whose swap forgets  self.n_moved = 0
move_bucket_keeps_cursor(self) ==
    LET s1 == IF self.n_moved = 0
              THEN [self EXCEPT !.grow = set_buckets(@, b_len(self.main) * 2)]
              ELSE self
        b == bucket(s1.main, s1.n_moved)
    IN  IF b.underflow THEN Panic(s1)
        ELSE IF b.some
        THEN IF b_len(s1.grow) = 0 THEN Panic(s1)
             ELSE [s1 EXCEPT !.main = b.bl,
                             !.grow = push_all(@, b.res, 1),
                             !.n_moved = @ + 1,
                             !.path = IF s1.n_moved = 0 THEN "start" ELSE "drain"]
        ELSE [s1 EXCEPT !.main = s1.grow, !.grow = s1.main, !.path = "swap"]

\* move_bucket whose start only grows the overflow bank and sets the cursor
move_bucket_start_skips_bucket(self) ==
    IF self.n_moved = 0
    THEN [self EXCEPT !.grow = set_buckets(@, b_len(self.main) * 2),
                      !.n_moved = 1, !.path = "start"]
    ELSE LET b == bucket(self.main, self.n_moved)
         IN  IF b.underflow THEN Panic(self)
             ELSE IF b.some
             THEN [self EXCEPT !.main = b.bl,
                               !.grow = push_all(@, b.res, 1),
                               !.n_moved = @ + 1,
                               !.path = "drain"]
             ELSE [self EXCEPT !.main = self.grow, !.grow = self.main,
                               !.n_moved = 0, !.path = "swap"]

\* move_bucket whose start doubles the overflow bank's own bucket count
move_bucket_doubles_grow(self) ==
    LET s1 == IF self.n_moved = 0
              THEN [self EXCEPT !.grow = set_buckets(@, b_len(self.grow) * 2)]
              ELSE self
        b == bucket(s1.main, s1.n_moved)
    IN  IF b.underflow THEN Panic(s1)
        ELSE IF b.some
        THEN IF b_len(s1.grow) = 0 THEN Panic(s1)
             ELSE [s1 EXCEPT !.main = b.bl,
                             !.grow = push_all(@, b.res, 1),
                             !.n_moved = @ + 1,
                             !.path = IF s1.n_moved = 0 THEN "start" ELSE "drain"]
        ELSE [s1 EXCEPT !.main = s1.grow, !.grow = s1.main, !.n_moved = 0,
                        !.path = "swap"]

\* move_bucket that resets the cursor and forgets to swap the banks
move_bucket_no_swap(self) ==
    LET s1 == IF self.n_moved = 0
              THEN [self EXCEPT !.grow = set_buckets(@, b_len(self.main) * 2)]
              ELSE self
        b == bucket(s1.main, s1.n_moved)
    IN  IF b.underflow THEN Panic(s1)
        ELSE IF b.some
        THEN IF b_len(s1.grow) = 0 THEN Panic(s1)
             ELSE [s1 EXCEPT !.main = b.bl,
                             !.grow = push_all(@, b.res, 1),
                             !.n_moved = @ + 1,
                             !.path = IF s1.n_moved = 0 THEN "start" ELSE "drain"]
        ELSE [s1 EXCEPT !.n_moved = 0, !.path = "swap"]

\* move_bucket whose swap exchanges the bucket vectors and entry counts but
\* leaves each seed where it was
move_bucket_swap_keeps_seed(self) ==
    LET s1 == IF self.n_moved = 0
              THEN [self EXCEPT !.grow = set_buckets(@, b_len(self.main) * 2)]
              ELSE self
        b == bucket(s1.main, s1.n_moved)
    IN  IF b.underflow THEN Panic(s1)
        ELSE IF b.some
        THEN IF b_len(s1.grow) = 0 THEN Panic(s1)
             ELSE [s1 EXCEPT !.main = b.bl,
                             !.grow = push_all(@, b.res, 1),
                             !.n_moved = @ + 1,
                             !.path = IF s1.n_moved = 0 THEN "start" ELSE "drain"]
        ELSE [s1 EXCEPT !.main = [s1.grow EXCEPT !.seed = s1.main.seed],
                        !.grow = [s1.main EXCEPT !.seed = s1.grow.seed],
                        !.n_moved = 0, !.path = "swap"]

\* move_bucket that swaps in the call that drains the last bucket
move_bucket_swaps_after_last(self) ==
    LET s1 == IF self.n_moved = 0
              THEN [self EXCEPT !.grow = set_buckets(@, b_len(self.main) * 2)]
              ELSE self
        b == bucket(s1.main, s1.n_moved)
    IN  IF b.underflow THEN Panic(s1)
        ELSE IF b.some
        THEN IF b_len(s1.grow) = 0 THEN Panic(s1)
             ELSE IF s1.n_moved + 1 >= b_len(s1.main)
             THEN [s1 EXCEPT !.main = push_all(s1.grow, b.res, 1), !.grow = b.bl,
                             !.n_moved = 0, !.path = "swap"]
             ELSE [s1 EXCEPT !.main = b.bl,
                             !.grow = push_all(@, b.res, 1),
                             !.n_moved = @ + 1,
                             !.path = IF s1.n_moved = 0 THEN "start" ELSE "drain"]
        ELSE [s1 EXCEPT !.main = s1.grow, !.grow = s1.main, !.n_moved = 0,
                        !.path = "swap"]

move_bucket(self) ==
    LET s1 == IF self.n_moved = 0
              THEN [self EXCEPT !.grow = set_buckets(@, b_len(self.main) * 2)]
              ELSE self
        b == bucket(s1.main, s1.n_moved)
    IN  IF b.underflow THEN Panic(s1)
        ELSE IF b.some
        THEN IF b_len(s1.grow) = 0 THEN Panic(s1)
             ELSE [s1 EXCEPT !.main = b.bl,
                             !.grow = push_all(@, b.res, 1),
                             !.n_moved = @ + 1,
                             !.path = IF s1.n_moved = 0 THEN "start" ELSE "drain"]
        ELSE [s1 EXCEPT !.main = s1.grow, !.grow = s1.main, !.n_moved = 0,
                        !.path = "swap"]

\* insert that does not look the key up in grow
insert_no_grow_lookup(self, k, v) ==
    IF b_len(self.main) = 0 THEN Panic(self)
    ELSE IF BucketList_get(self.main, k) # None
    THEN [self EXCEPT !.main = BucketList_get_mut_set(@, k, v), !.path = "update"]
    ELSE IF b_len(self.grow) = 0 THEN Panic(self)
    ELSE IF self.n_moved > 0
    THEN move_bucket([self EXCEPT !.grow = push(@, k, v).bl])
    ELSE LET p == push(self.main, k, v)
         IN  IF p.ret > BSIZE \div 2
             THEN move_bucket([self EXCEPT !.main = p.bl])
             ELSE [self EXCEPT !.main = p.bl, !.path = "push"]

\* insert that never looks the key up
insert_no_lookup(self, k, v) ==
    IF b_len(self.main) = 0 \/ b_len(self.grow) = 0 THEN Panic(self)
    ELSE IF self.n_moved > 0
    THEN move_bucket([self EXCEPT !.grow = push(@, k, v).bl])
    ELSE LET p == push(self.main, k, v)
         IN  IF p.ret > BSIZE \div 2
             THEN move_bucket([self EXCEPT !.main = p.bl])
             ELSE [self EXCEPT !.main = p.bl, !.path = "push"]

\* insert whose update of a key in grow also takes a migration step
insert_update_migrates(self, k, v) ==
    IF b_len(self.main) = 0 THEN Panic(self)
    ELSE IF BucketList_get(self.main, k) # None
    THEN [self EXCEPT !.main = BucketList_get_mut_set(@, k, v), !.path = "update"]
    ELSE IF b_len(self.grow) = 0 THEN Panic(self)
    ELSE IF BucketList_get(self.grow, k) # None
    THEN move_bucket([self EXCEPT !.grow = BucketList_get_mut_set(@, k, v)])
    ELSE IF self.n_moved > 0
    THEN move_bucket([self EXCEPT !.grow = push(@, k, v).bl])
    ELSE LET p == push(self.main, k, v)
         IN  IF p.ret > BSIZE \div 2
             THEN move_bucket([self EXCEPT !.main = p.bl])
             ELSE [self EXCEPT !.main = p.bl, !.path = "push"]

\* insert that compares the chain length with >= instead of >
insert_ge_threshold(self, k, v) ==
    IF b_len(self.main) = 0 THEN Panic(self)
    ELSE IF BucketList_get(self.main, k) # None
    THEN [self EXCEPT !.main = BucketList_get_mut_set(@, k, v), !.path = "update"]
    ELSE IF b_len(self.grow) = 0 THEN Panic(self)
    ELSE IF BucketList_get(self.grow, k) # None
    THEN [self EXCEPT !.grow = BucketList_get_mut_set(@, k, v), !.path = "update"]
    ELSE IF self.n_moved > 0
    THEN move_bucket([self EXCEPT !.grow = push(@, k, v).bl])
    ELSE LET p == push(self.main, k, v)
         IN  IF p.ret >= BSIZE \div 2
             THEN move_bucket([self EXCEPT !.main = p.bl])
             ELSE [self EXCEPT !.main = p.bl, !.path = "push"]

\* insert that pushes a new key into main also while a migration runs
insert_migrating_push_main(self, k, v) ==
    IF b_len(self.main) = 0 THEN Panic(self)
    ELSE IF BucketList_get(self.main, k) # None
    THEN [self EXCEPT !.main = BucketList_get_mut_set(@, k, v), !.path = "update"]
    ELSE IF b_len(self.grow) = 0 THEN Panic(self)
    ELSE IF BucketList_get(self.grow, k) # None
    THEN [self EXCEPT !.grow = BucketList_get_mut_set(@, k, v), !.path = "update"]
    ELSE IF self.n_moved > 0
    THEN move_bucket([self EXCEPT !.main = push(@, k, v).bl])
    ELSE LET p == push(self.main, k, v)
         IN  IF p.ret > BSIZE \div 2
             THEN move_bucket([self EXCEPT !.main = p.bl])
             ELSE [self EXCEPT !.main = p.bl, !.path = "push"]

\* insert that looks the key up in grow only
insert_no_main_lookup(self, k, v) ==
    IF b_len(self.main) = 0 \/ b_len(self.grow) = 0 THEN Panic(self)
    ELSE IF BucketList_get(self.grow, k) # None
    THEN [self EXCEPT !.grow = BucketList_get_mut_set(@, k, v), !.path = "update"]
    ELSE IF self.n_moved > 0
    THEN move_bucket([self EXCEPT !.grow = push(@, k, v).bl])
    ELSE LET p == push(self.main, k, v)
         IN  IF p.ret > BSIZE \div 2
             THEN move_bucket([self EXCEPT !.main = p.bl])
             ELSE [self EXCEPT !.main = p.bl, !.path = "push"]

\* insert that pushes a new key into grow while a migration runs and takes
\* no migration step
insert_migrating_no_step(self, k, v) ==
    IF b_len(self.main) = 0 THEN Panic(self)
    ELSE IF BucketList_get(self.main, k) # None
    THEN [self EXCEPT !.main = BucketList_get_mut_set(@, k, v), !.path = "update"]
    ELSE IF b_len(self.grow) = 0 THEN Panic(self)
    ELSE IF BucketList_get(self.grow, k) # None
    THEN [self EXCEPT !.grow = BucketList_get_mut_set(@, k, v), !.path = "update"]
    ELSE IF self.n_moved > 0
    THEN [self EXCEPT !.grow = push(@, k, v).bl, !.path = "push"]
    ELSE LET p == push(self.main, k, v)
         IN  IF p.ret > BSIZE \div 2
             THEN move_bucket([self EXCEPT !.main = p.bl])
             ELSE [self EXCEPT !.main = p.bl, !.path = "push"]

\* insert that compares the chain length with BSIZE instead of BSIZE / 2
insert_threshold_bsize(self, k, v) ==
    IF b_len(self.main) = 0 THEN Panic(self)
    ELSE IF BucketList_get(self.main, k) # None
    THEN [self EXCEPT !.main = BucketList_get_mut_set(@, k, v), !.path = "update"]
    ELSE IF b_len(self.grow) = 0 THEN Panic(self)
    ELSE IF BucketList_get(self.grow, k) # None
    THEN [self EXCEPT !.grow = BucketList_get_mut_set(@, k, v), !.path = "update"]
    ELSE IF self.n_moved > 0
    THEN move_bucket([self EXCEPT !.grow = push(@, k, v).bl])
    ELSE LET p == push(self.main, k, v)
         IN  IF p.ret > BSIZE
             THEN move_bucket([self EXCEPT !.main = p.bl])
             ELSE [self EXCEPT !.main = p.bl, !.path = "push"]

insert(self, k, v) ==
    IF b_len(self.main) = 0 THEN Panic(self)
    ELSE IF BucketList_get(self.main, k) # None
    THEN [self EXCEPT !.main = BucketList_get_mut_set(@, k, v), !.path = "update"]
    ELSE IF b_len(self.grow) = 0 THEN Panic(self)
    ELSE IF BucketList_get(self.grow, k) # None
    THEN [self EXCEPT !.grow = BucketList_get_mut_set(@, k, v), !.path = "update"]
    ELSE IF self.n_moved > 0
    THEN move_bucket([self EXCEPT !.grow = push(@, k, v).bl])
    ELSE LET p == push(self.main, k, v)
         IN  IF p.ret > BSIZE \div 2
             THEN move_bucket([self EXCEPT !.main = p.bl])
             ELSE [self EXCEPT !.main = p.bl, !.path = "push"]

\* get that looks in main only
HMap_get_main_only(self, k) == BucketList_get(self.main, k)

\* self.main.get(kr).or_else(|| self.grow.get(kr))
HMap_get(self, k) ==
    LET m == BucketList_get(self.main, k)
    IN  IF m # None THEN m ELSE BucketList_get(self.grow, k)

\* get_mut that looks in main only
HMap_get_mut_main_only(self, k) ==
    LET m == BucketList_get_mut(self.main, k)
    IN  IF m # None THEN Some(<< "main", m[1][1], m[1][2] >>) ELSE None

\* get_mut: the bank and the place of the entry the returned reference points
\* into, None if neither bank holds the key
HMap_get_mut(self, k) ==
    LET m == BucketList_get_mut(self.main, k)
    IN  IF m # None THEN Some(<< "main", m[1][1], m[1][2] >>)
        ELSE LET g == BucketList_get_mut(self.grow, k)
             IN  IF g # None THEN Some(<< "grow", g[1][1], g[1][2] >>) ELSE None

\* the caller's  *r = v  through the reference r that get_mut returned
write(self, r, v) ==
    IF r[1] = "main"
    THEN [self EXCEPT !.main.buckets[r[2]][r[3]][2] = v]
    ELSE [self EXCEPT !.grow.buckets[r[2]][r[3]][2] = v]

\* is_empty that looks at main only
HMap_is_empty_main_only(self) == BucketList_len(self.main) = 0

\* self.main.len() == 0 && self.grow.len() == 0
HMap_is_empty(self) == BucketList_len(self.main) = 0 /\ BucketList_len(self.grow) = 0

HMap_len(self) == BucketList_len(self.main) + BucketList_len(self.grow)

(***************************************************************************)
(* ecs: GenData is a record [pos, gen]; GenManager is a record             *)
(* [items, drops] with items a sequence of [active, gen] and drops a       *)
(* sequence of positions (the Vec used as a stack: pop takes the last).    *)
(* VecStore.items is a sequence of Option<(gen, t)>.  Position pos of the  *)
(* code is index pos + 1 here.                                             *)
(***************************************************************************)
GenData(pos, gen) == [pos |-> pos, gen |-> gen]

\* the GenData the calls are made with: positions up to one past the last slot
Handles == [pos : 0..MaxSlots, gen : 0..MaxGen]

T == 1..MaxT

GenManager_new == [items |-> << >>, drops |-> << >>]

\* next that re-activates the slot and leaves its generation as it was
GenManager_next_keeps_gen(self) ==
    IF self.drops # << >>
    THEN LET loc == self.drops[Len(self.drops)]
             ea == self.items[loc + 1]
         IN  [gm |-> [items |-> [self.items EXCEPT ![loc + 1] =
                                    [active |-> TRUE, gen |-> ea.gen]],
                      drops |-> SubSeq(self.drops, 1, Len(self.drops) - 1)],
              ret |-> GenData(loc, ea.gen)]
    ELSE [gm |-> [self EXCEPT !.items = Append(@, [active |-> TRUE, gen |-> 0])],
          ret |-> GenData(Len(self.items), 0)]

\* returns [gm, ret]: the manager after the call and the GenData returned
GenManager_next(self) ==
    IF self.drops # << >>
    THEN LET loc == self.drops[Len(self.drops)]
             ea == self.items[loc + 1]
         IN  [gm |-> [items |-> [self.items EXCEPT ![loc + 1] =
                                    [active |-> TRUE, gen |-> ea.gen + 1]],
                      drops |-> SubSeq(self.drops, 1, Len(self.drops) - 1)],
              ret |-> GenData(loc, ea.gen + 1)]
    ELSE [gm |-> [self EXCEPT !.items = Append(@, [active |-> TRUE, gen |-> 0])],
          ret |-> GenData(Len(self.items), 0)]

GenManager_drop(self, g) ==
    IF g.pos < Len(self.items)
    THEN LET ea == self.items[g.pos + 1]
         IN  IF ea.active /\ ea.gen = g.gen
             THEN [items |-> [self.items EXCEPT ![g.pos + 1].active = FALSE],
                   drops |-> Append(self.drops, g.pos)]
             ELSE self
    ELSE self

VecStore_new == << >>

VecStore_add(items, g, t) ==
    LET grown == IF g.pos >= Len(items)
                 THEN items \o [i \in 1..((g.pos + 1) - Len(items)) |-> None]
                 ELSE items
    IN  [grown EXCEPT ![g.pos + 1] = Some(<< g.gen, t >>)]

VecStore_get(items, g) ==
    IF g.pos < Len(items) /\ items[g.pos + 1] # None /\ items[g.pos + 1][1][1] = g.gen
    THEN Some(items[g.pos + 1][1][2])
    ELSE None

\* get_mut followed by the caller's  *d = t
VecStore_get_mut_set(items, g, t) ==
    IF g.pos < Len(items) /\ items[g.pos + 1] # None /\ items[g.pos + 1][1][1] = g.gen
    THEN [items EXCEPT ![g.pos + 1] = Some(<< g.gen, t >>)]
    ELSE items

\* drop that does not compare the generation
VecStore_drop_any_gen(items, g) ==
    IF g.pos < Len(items) /\ items[g.pos + 1] # None
    THEN [items EXCEPT ![g.pos + 1] = None]
    ELSE items

VecStore_drop(items, g) ==
    IF g.pos < Len(items) /\ items[g.pos + 1] # None /\ items[g.pos + 1][1][1] = g.gen
    THEN [items EXCEPT ![g.pos + 1] = None]
    ELSE items

\* for_each_mut with the closure  |_, d| *d = t
VecStore_for_each_mut_set(items, t) ==
    [i \in 1..Len(items) |->
        IF items[i] = None THEN None ELSE Some(<< items[i][1][1], t >>)]

\* GenManager::new() and VecStore::new()
EcsNew ==
    /\ gm = GenManager_new
    /\ vs = VecStore_new
    /\ eop = [name |-> "new", g |-> GenData(0, 0), res |-> None]
    /\ issued = {}

(***************************************************************************)
(* The state machine                                                       *)
(***************************************************************************)
Self ==
    [n_moved |-> n_moved, main |-> main, grow |-> grow, panicked |-> panicked,
     path |-> "none"]

Inserted == {k \in Keys : shadow[k] # None}

\* the keys are opaque: the next key that is new to the map is named
\* Cardinality(Inserted) + 1
NextKey == Cardinality(Inserted) + 1

Init ==
    /\ \E s1 \in Seeds, s2 \in Seeds :
          \E r \in {HMap_new(s1, s2)} :
             /\ n_moved = r.n_moved
             /\ main = r.main
             /\ grow = r.grow
             /\ panicked = r.panicked
    /\ op = [name |-> "new", k |-> 0, v |-> 0, found |-> None, path |-> "none"]
    /\ shadow = [k \in Keys |-> None]
    /\ started = 0
    /\ EcsNew

\* hm.insert(k, v)
Insert(k, v) ==
    /\ ~panicked
    /\ UNCHANGED ecs_vars
    /\ k \in Inserted \cup {NextKey}
    /\ v = 1 \/ \A j \in Keys \ {k} : shadow[j] \in {None, Some(1)}
    /\ \E r \in {insert(Self, k, v)} :
          /\ n_moved' = r.n_moved
          /\ main' = r.main
          /\ grow' = r.grow
          /\ panicked' = r.panicked
          /\ op' = [name |-> "insert", k |-> k, v |-> v, found |-> shadow[k],
                    path |-> r.path]
          /\ started' = IF r.path = "start" THEN Cardinality(Inserted \cup {k})
                         ELSE started
    /\ shadow' = [shadow EXCEPT ![k] = Some(v)]

\* get that helps a running migration along
Get_advancing(k) ==
    /\ ~panicked
    /\ UNCHANGED ecs_vars
    /\ \E r \in {IF n_moved > 0 THEN move_bucket(Self) ELSE Self} :
          /\ n_moved' = r.n_moved
          /\ main' = r.main
          /\ grow' = r.grow
          /\ panicked' = r.panicked
    /\ op' = [name |-> "get", k |-> 0, v |-> 0, found |-> HMap_get(Self, k),
              path |-> "none"]
    /\ UNCHANGED << shadow, started >>

\* hm.get(&k): the call takes &mut self and only reads
Get(k) ==
    /\ ~panicked
    /\ UNCHANGED ecs_vars
    /\ IF b_len(main) = 0 \/ b_len(grow) = 0
       THEN /\ panicked' = TRUE
            /\ op' = [name |-> "get", k |-> 0, v |-> 0, found |-> None, path |-> "none"]
       ELSE /\ panicked' = panicked
            /\ op' = [name |-> "get", k |-> 0, v |-> 0, found |-> HMap_get(Self, k),
                      path |-> "none"]
    /\ UNCHANGED << n_moved, main, grow, shadow, started >>

\* if let Some(r) = hm.get_mut(&k) { *r = v }
\* Absent keys are interchangeable: the next new key stands for them, and
\* the value, which is not used on a miss, is the common one.
GetMut(k, v) ==
    /\ ~panicked
    /\ UNCHANGED ecs_vars
    /\ k \in Inserted \cup {NextKey}
    /\ v = 1 \/ (shadow[k] # None /\ \A j \in Keys \ {k} : shadow[j] \in {None, Some(1)})
    /\ IF b_len(main) = 0 \/ (BucketList_get(main, k) = None /\ b_len(grow) = 0)
       THEN /\ panicked' = TRUE
            /\ op' = [name |-> "get_mut", k |-> 0, v |-> 0, found |-> None,
                      path |-> "none"]
            /\ UNCHANGED << n_moved, main, grow, shadow, started >>
       ELSE \E r \in {HMap_get_mut(Self, k)} :
               IF r = None
               THEN /\ op' = [name |-> "get_mut", k |-> 0, v |-> 0, found |-> None,
                              path |-> "none"]
                    /\ UNCHANGED << n_moved, main, grow, panicked, shadow, started >>
               ELSE \E w \in {write(Self, r[1], v)} :
                       /\ n_moved' = w.n_moved
                       /\ main' = w.main
                       /\ grow' = w.grow
                       /\ panicked' = w.panicked
                       /\ op' = [name |-> "get_mut", k |-> 0, v |-> 0,
                                 found |-> shadow[k], path |-> "none"]
                       /\ shadow' = [shadow EXCEPT ![k] = Some(v)]
                       /\ UNCHANGED started

Next ==
    \/ \E k \in Keys, v \in Values : Insert(k, v)
    \/ \E k \in Keys : Get(k)
    \/ \E k \in Keys, v \in Values : GetMut(k, v)

Spec == Init /\ [][Next]_vars

\* an insert of a key that is new to the map
InsertNew == NextKey \in Keys /\ \E v \in Values : Insert(NextKey, v)

\* the effect of InsertNew on the history: the next new key gets a value.
\* Under Next the steps that change shadow this way are exactly the InsertNew
\* steps (NewKeyInsertedIsInsertNew), and it is enabled exactly when InsertNew
\* is: insert is total, so when the map has not panicked and a key is left.
NewKeyInserted ==
    /\ ~panicked /\ NextKey \in Keys
    /\ \E v \in Values : shadow' = [shadow EXCEPT ![NextKey] = Some(v)]

NewKeyInsertedIsInsertNew == [][<<NewKeyInserted>>_shadow <=> <<InsertNew>>_vars]_vars

\* the caller keeps inserting new keys, as long as the model has keys left
LiveSpec == Init /\ [][Next]_vars /\ WF_shadow(NewKeyInserted)

(***************************************************************************)
(* The state machines of ecs.  The map is left as new() returns it.         *)
(***************************************************************************)
EcsInit ==
    /\ \E r \in {HMap_new(0, 0)} :
          /\ n_moved = r.n_moved
          /\ main = r.main
          /\ grow = r.grow
          /\ panicked = r.panicked
    /\ op = [name |-> "new", k |-> 0, v |-> 0, found |-> None, path |-> "none"]
    /\ shadow = [k \in Keys |-> None]
    /\ started = 0
    /\ EcsNew

\* let g = gm.next(); generations stop at MaxGen, slots at MaxSlots
GmNext ==
    /\ IF gm.drops # << >>
       THEN gm.items[gm.drops[Len(gm.drops)] + 1].gen < MaxGen
       ELSE Len(gm.items) < MaxSlots
    /\ \E r \in {GenManager_next(gm)} :
          /\ gm' = r.gm
          /\ eop' = [name |-> "next", g |-> r.ret, res |-> None]
          /\ issued' = issued \cup {r.ret}
    /\ UNCHANGED << vs, hmap_vars >>

\* gm.drop(g)
GmDrop(g) ==
    /\ gm' = GenManager_drop(gm, g)
    /\ eop' = [name |-> "drop", g |-> g, res |-> None]
    /\ UNCHANGED << vs, issued, hmap_vars >>

GenNext ==
    \/ GmNext
    \/ \E g \in Handles : GmDrop(g)

GenSpec == EcsInit /\ [][GenNext]_vars

\* vs.add(g, t); positions stop at MaxSlots - 1
VsAdd(g, t) ==
    /\ g.pos < MaxSlots
    /\ vs' = VecStore_add(vs, g, t)
    /\ eop' = [name |-> "add", g |-> g, res |-> None]
    /\ UNCHANGED << gm, issued, hmap_vars >>

\* vs.get(g)
VsGet(g) ==
    /\ eop' = [name |-> "get", g |-> g, res |-> VecStore_get(vs, g)]
    /\ UNCHANGED << gm, vs, issued, hmap_vars >>

\* if let Some(d) = vs.get_mut(g) { *d = t }
VsGetMut(g, t) ==
    /\ vs' = VecStore_get_mut_set(vs, g, t)
    /\ eop' = [name |-> "get_mut", g |-> g, res |-> VecStore_get(vs, g)]
    /\ UNCHANGED << gm, issued, hmap_vars >>

\* vs.drop(g)
VsDrop(g) ==
    /\ vs' = VecStore_drop(vs, g)
    /\ eop' = [name |-> "drop", g |-> g, res |-> None]
    /\ UNCHANGED << gm, issued, hmap_vars >>

\* vs.for_each_mut(|_, d| *d = t)
VsForEachMut(t) ==
    /\ vs' = VecStore_for_each_mut_set(vs, t)
    /\ eop' = [name |-> "for_each_mut", g |-> GenData(0, 0), res |-> None]
    /\ UNCHANGED << gm, issued, hmap_vars >>

StoreNext ==
    \/ \E g \in Handles, t \in T : VsAdd(g, t)
    \/ \E g \in Handles : VsGet(g)
    \/ \E g \in Handles, t \in T : VsGetMut(g, t)
    \/ \E g \in Handles : VsDrop(g)
    \/ \E t \in T : VsForEachMut(t)

StoreSpec == EcsInit /\ [][StoreNext]_vars

(***************************************************************************)
(* Helpers of the properties                                               *)
(***************************************************************************)
\* the keys stored in a bank
KeysOf(bl) ==
    UNION {{bl.buckets[i][j][1] : j \in 1..Len(bl.buckets[i])} :
              i \in 1..Len(bl.buckets)}

\* the lengths of all chains of both banks
ChainLens ==
    {Len(main.buckets[i]) : i \in 1..Len(main.buckets)}
        \cup {Len(grow.buckets[i]) : i \in 1..Len(grow.buckets)}

\* the key at every position of every chain of a bank
Layout(bl) ==
    [i \in 1..Len(bl.buckets) |->
        [j \in 1..Len(bl.buckets[i]) |-> bl.buckets[i][j][1]]]

\* every entry of the bank whose key is not k
Others(bl, k) ==
    [i \in 1..Len(bl.buckets) |->
        [j \in 1..Len(bl.buckets[i]) |->
            IF bl.buckets[i][j][1] = k THEN << k >> ELSE bl.buckets[i][j]]]

\* the sum of the lengths of chains i.. of a bank
RECURSIVE ChainSum(_, _)
ChainSum(bl, i) ==
    IF i > Len(bl.buckets) THEN 0
    ELSE Len(bl.buckets[i]) + ChainSum(bl, i + 1)

\* every entry of the bank sits in the chain its key hashes to
Placed(bl) ==
    \A i \in 1..Len(bl.buckets) :
        \A j \in 1..Len(bl.buckets[i]) : h_of(bl, bl.buckets[i][j][1]) = i

\* the positions (chain, place in the chain) of the entries of a bank whose
\* key is k
Places(bl, k) ==
    UNION {{<< i, j >> : j \in {n \in 1..Len(bl.buckets[i]) : bl.buckets[i][n][1] = k}} :
              i \in 1..Len(bl.buckets)}

\* the (key, value) pairs stored in a bank
Entries(bl) ==
    UNION {{bl.buckets[i][j] : j \in 1..Len(bl.buckets[i])} :
              i \in 1..Len(bl.buckets)}

\* the map at the call of move_bucket inside insert(k, v) of a new key: the
\* key has been pushed into grow (n_moved > 0) or into main
BeforeMove(k, v) ==
    IF n_moved > 0
    THEN [Self EXCEPT !.grow = push(@, k, v).bl]
    ELSE [Self EXCEPT !.main = push(@, k, v).bl]

\* what bucket(n) does to a bank: the whole chain n is returned and left
\* empty, len drops by its length, nothing else changes; out of range, None
\* and no change at all
BucketTakes(bl, n) ==
    LET r == bucket(bl, n)
    IN  IF n < b_len(bl)
        THEN /\ r.some /\ ~r.underflow
             /\ r.res = bl.buckets[n + 1]
             /\ r.bl.buckets[n + 1] = << >>
             /\ BucketList_len(r.bl) = BucketList_len(bl) - Len(bl.buckets[n + 1])
             /\ b_len(r.bl) = b_len(bl)
             /\ r.bl.seed = bl.seed
             /\ \A i \in 1..b_len(bl) : i # n + 1 => r.bl.buckets[i] = bl.buckets[i]
        ELSE ~r.some /\ r.bl = bl

\* the entry a reference returned by HMap_get_mut points into
At(self, r) ==
    IF r[1] = "main" THEN self.main.buckets[r[2]][r[3]]
    ELSE self.grow.buckets[r[2]][r[3]]

\* the new keys a running migration still needs: one per bucket left to
\* drain and one for the swap
KeysToStable == (b_len(main) - n_moved) + 1

\* the number of new keys inserted since the insert that started the last
\* migration
SinceStart == Cardinality(Inserted) - started

\* the positions a sequence of positions holds
Range(seq) == {seq[i] : i \in 1..Len(seq)}

\* slot g.pos of the store is occupied with generation exactly g.gen
Occupied(items, g) ==
    /\ g.pos < Len(items)
    /\ items[g.pos + 1] # None
    /\ items[g.pos + 1][1][1] = g.gen

FreshInsert == op.name = "insert" /\ op.found = None

(***************************************************************************)
(* Properties                                                              *)
(***************************************************************************)

\* C1 (Uniqueness): after every call of every sequence of inserts, with
\* repeated keys and across migrations, len() is the number of distinct keys
\* inserted so far.
C1_Uniqueness == HMap_len(Self) = Cardinality(Inserted)

\* a key was overwritten with another value after two completed migrations
C1_Witness ==
    /\ op.path = "update" /\ op.found # Some(op.v)
    /\ n_moved = 0 /\ b_len(main) = 4 /\ HMap_len(Self) = 9

\* C2 (Read-your-write, last write wins): right after insert(k, v) returns,
\* get(k) is Some(v), in every migration state; and when k was present before
\* the call, len() is unchanged by it.
C2_ReadYourWrite ==
    [][op'.name = "insert" =>
          /\ HMap_get(Self', op'.k) = Some(op'.v)
          /\ (HMap_get(Self, op'.k) # None => HMap_len(Self') = HMap_len(Self))]_vars

\* a key held by the overflow bank was overwritten with another value
C2_Witness ==
    /\ op.path = "update" /\ op.found # Some(op.v)
    /\ n_moved > 0 /\ BucketList_get(grow, op.k) = Some(op.v)

\* C3 (Migration transparency): an insert of k2 changes get(k) for no other
\* key k, also when the call starts a migration, drains the bucket that holds
\* k or swaps the banks.
C3_MigrationTransparency ==
    [][op'.name = "insert" =>
          \A k \in Keys \ {op'.k} : HMap_get(Self', k) = HMap_get(Self, k)]_vars

\* a drain step moved bucket 1 of a 2-bucket active bank, which held a tagged
\* key that was inserted before the migration started, into the overflow bank
C3_Witness ==
    /\ op.path = "drain" /\ n_moved = 2 /\ b_len(main) = 2
    /\ \E k \in Inserted :
          /\ k < op.k
          /\ h_of(main, k) = n_moved
          /\ BucketList_get(grow, k) = Some(2)

\* C4 (No duplication): no key is in both banks at the same time.
C4_NoDuplication == KeysOf(main) \cap KeysOf(grow) = {}

\* a migration has started and both banks hold entries
C4_Witness ==
    /\ op.path = "start" /\ n_moved = 1
    /\ BucketList_len(main) > 0 /\ BucketList_len(grow) > 0

\* C5: get(k) is None if and only if k was never inserted.
C5_GetAbsentIffNeverInserted ==
    \A k \in Keys : (HMap_get(Self, k) = None) <=> (k \notin Inserted)

\* a lookup of a key that was never inserted, while both banks hold entries
C5_Witness ==
    /\ op.name = "get" /\ op.found = None
    /\ n_moved > 0 /\ BucketList_len(main) > 0 /\ BucketList_len(grow) > 0

\* C6: get(k) changes neither the cursor nor either bank (seed, entry count,
\* bucket count, chains), for present and absent keys.
C6_GetIsReadOnly ==
    [][op'.name = "get" => (n_moved' = n_moved /\ main' = main /\ grow' = grow)]_vars

\* a lookup that hit while the active bank was drained and the swap pending
C6_Witness ==
    /\ op.name = "get" /\ op.found # None
    /\ n_moved = b_len(main) /\ BucketList_len(grow) > 0

\* C7: an insert of a key that is present only overwrites its value: cursor,
\* banks' roles, entry counts, bucket counts, the position of every entry and
\* every other entry's value stay as they were.
C7_UpdateOnlyOverwrites ==
    [][(op'.name = "insert" /\ HMap_get(Self, op'.k) # None) =>
          /\ n_moved' = n_moved
          /\ HMap_len(Self') = HMap_len(Self)
          /\ main'.seed = main.seed /\ grow'.seed = grow.seed
          /\ main'.len = main.len /\ grow'.len = grow.len
          /\ Layout(main') = Layout(main) /\ Layout(grow') = Layout(grow)
          /\ Others(main', op'.k) = Others(main, op'.k)
          /\ Others(grow', op'.k) = Others(grow, op'.k)]_vars

\* a key still held by the active bank was overwritten during a migration
C7_Witness ==
    /\ op.path = "update" /\ op.found # Some(op.v)
    /\ n_moved > 0 /\ BucketList_get(main, op.k) = Some(op.v)

\* C8: insert never hits a failed internal check: both bucket vectors are
\* non-empty, so hash % len is a valid index, and no chain is longer than its
\* bank's entry count, so len -= chain length cannot underflow.
C8_InsertNeverFails ==
    /\ ~panicked
    /\ b_len(main) >= 1 /\ b_len(grow) >= 1
    /\ \A i \in 1..Len(main.buckets) : Len(main.buckets[i]) <= BucketList_len(main)
    /\ \A i \in 1..Len(grow.buckets) : Len(grow.buckets[i]) <= BucketList_len(grow)

\* the second swap has been performed
C8_Witness == op.path = "swap" /\ b_len(main) = 4 /\ BucketList_len(main) > 0

\* C9 as stated (Bounded bucket length): every chain of both banks is shorter
\* than 10.
C9_ChainsShorterThanTen == \A n \in ChainLens : n < 10

\* C9 amended: every chain is at most as long as the number of distinct keys
\* inserted, so chains are shorter than 10 while fewer than 10 keys are in the
\* map; no constant bounds the chains of colliding keys.
C9_ChainsAtMostKeyCount == \A n \in ChainLens : n <= Cardinality(Inserted)

\* a completed migration left all 9 keys in one chain of the active bank
C9_Witness ==
    /\ op.path = "swap" /\ Cardinality(Inserted) = 9
    /\ \E i \in 1..Len(main.buckets) : Len(main.buckets[i]) = 9

\* C10 as stated: the 3rd insert of a new key into a fresh map starts a
\* migration: afterwards n_moved = 1, len() = 3 and the three keys are read
\* back with their values.
C10_ThirdInsertStartsMigration ==
    (FreshInsert /\ Cardinality(Inserted) = 3) =>
        /\ n_moved = 1
        /\ HMap_len(Self) = 3
        /\ \A k \in Inserted : HMap_get(Self, k) = shadow[k]

\* C10 amended: the threshold is BSIZE / 2 = 4, so the 3rd insert of a new key
\* starts nothing (n_moved = 0, len() = 3) and the 5th one starts the migration:
\* afterwards n_moved = 1, len() = 5 and all five keys are read back with
\* their values.
C10_FifthInsertStartsMigration ==
    /\ (FreshInsert /\ Cardinality(Inserted) = 3) =>
          /\ n_moved = 0 /\ op.path = "push"
          /\ HMap_len(Self) = 3
          /\ \A k \in Inserted : HMap_get(Self, k) = shadow[k]
    /\ (FreshInsert /\ Cardinality(Inserted) = 5) =>
          /\ n_moved = 1 /\ op.path = "start"
          /\ HMap_len(Self) = 5
          /\ \A k \in Inserted : HMap_get(Self, k) = shadow[k]

\* the 5th new key has just been inserted
C10_Witness ==
    /\ FreshInsert /\ Cardinality(Inserted) = 5 /\ n_moved = 1
    /\ b_len(grow) = 2 /\ BucketList_len(grow) = 5

\* C11: new() yields an empty Stable map (both banks one bucket and no entry,
\* n_moved = 0, len() = 0, is_empty()), and in every state is_empty() holds
\* if and only if len() = 0, if and only if no insert has been performed.
C11_NewIsEmptyStable ==
    /\ Inserted = {} =>
          /\ b_len(main) = 1 /\ b_len(grow) = 1
          /\ main.buckets[1] = << >> /\ grow.buckets[1] = << >>
          /\ BucketList_len(main) = 0 /\ BucketList_len(grow) = 0
          /\ n_moved = 0
          /\ HMap_len(Self) = 0
          /\ HMap_is_empty(Self)
    /\ HMap_is_empty(Self) <=> (HMap_len(Self) = 0)
    /\ HMap_is_empty(Self) <=> (Inserted = {})

\* the map as new() returns it, with banks of different seeds
C11_Witness == op.name = "new" /\ HMap_is_empty(Self) /\ main.seed # grow.seed

\* C12 (Pacing): across an insert the cursor stays, grows by exactly 1 or is
\* reset to 0 by the swap, and the call empties at most one non-empty bucket
\* of the active bank (the swap itself leaves the old active bank as it was).
C12_Pacing ==
    [][op'.name = "insert" =>
          /\ n_moved' \in {n_moved, n_moved + 1, 0}
          /\ IF n_moved > 0 /\ n_moved' = 0
             THEN grow' = main
             ELSE /\ b_len(main') = b_len(main)
                  /\ Cardinality({i \in 1..b_len(main) :
                                     /\ main.buckets[i] # << >>
                                     /\ main'.buckets[i] = << >>}) <= 1]_vars

\* a drain step taken while the overflow bank already holds more than BSIZE
\* entries
C12_Witness ==
    /\ op.path = "drain" /\ op.found = None /\ n_moved = 2
    /\ BucketList_len(grow) > BSIZE

\* C13 (Migration start): in the Stable state an insert of a new key pushes it
\* into the active bank; if the chain it lands in is then longer than
\* BSIZE / 2, the same call grows the overflow bank to twice the active
\* bank's bucket count, drains bucket 0 of the active bank into the overflow
\* bank and sets n_moved = 1; otherwise nothing else changes and n_moved
\* stays 0.
C13_MigrationStart ==
    [][(op'.name = "insert" /\ n_moved = 0 /\ HMap_get(Self, op'.k) = None) =>
          LET h == h_of(main, op'.k)
              pushed == [i \in 1..b_len(main) |->
                            IF i = h
                            THEN Append(main.buckets[i], << op'.k, op'.v >>)
                            ELSE main.buckets[i]]
          IN  IF Len(pushed[h]) > BSIZE \div 2
              THEN /\ n_moved' = 1
                   /\ b_len(grow') = 2 * b_len(main)
                   /\ b_len(main') = b_len(main)
                   /\ main'.buckets[1] = << >>
                   /\ \A i \in 2..b_len(main) : main'.buckets[i] = pushed[i]
                   /\ main'.len = (main.len + 1) - Len(pushed[1])
                   /\ grow'.len = grow.len + Len(pushed[1])
                   /\ \A j \in 1..Len(pushed[1]) :
                         BucketList_get(grow', pushed[1][j][1]) = Some(pushed[1][j][2])
              ELSE /\ n_moved' = 0
                   /\ main'.buckets = pushed
                   /\ main'.len = main.len + 1
                   /\ grow' = grow]_vars

\* the second migration has started and bucket 0, longer than the threshold,
\* has been replayed into the 4 buckets of the overflow bank
C13_Witness ==
    /\ op.path = "start" /\ n_moved = 1
    /\ b_len(grow) = 4 /\ BucketList_len(grow) > BSIZE \div 2

\* C14: while a migration runs (n_moved > 0) a new key is pushed into the
\* overflow bank and never into the active bank, so no insert between the
\* start and the swap increases the active bank's entry count; the swap
\* leaves the old active bank as it was.
C14_MigratingInsertsGoToGrow ==
    [][(op'.name = "insert" /\ n_moved > 0) =>
          IF n_moved' = 0
          THEN grow' = main /\ op'.k \in KeysOf(main')
          ELSE /\ main'.len <= main.len
               /\ HMap_get(Self, op'.k) = None =>
                     (op'.k \in KeysOf(grow') /\ op'.k \notin KeysOf(main'))]_vars

\* a new key went to the overflow bank in the call that drained the last
\* bucket of a 2-bucket active bank
C14_Witness ==
    /\ op.path = "drain" /\ op.found = None /\ op.k \in KeysOf(grow)
    /\ b_len(main) = 2 /\ BucketList_len(main) = 0

\* C15 (Drain-complete swap): a new-key insert that finds the cursor past the
\* last bucket of the active bank swaps the banks and resets n_moved to 0;
\* the new active bank has twice the buckets of the old one and holds every
\* entry of the map, the key just inserted included; the new overflow bank is
\* the old, empty active bank.
C15_DrainCompleteSwap ==
    [][(/\ op'.name = "insert"
        /\ n_moved > 0
        /\ n_moved >= b_len(main)
        /\ HMap_get(Self, op'.k) = None) =>
          /\ n_moved' = 0
          /\ b_len(main') = 2 * b_len(main)
          /\ main'.seed = grow.seed
          /\ grow' = main
          /\ BucketList_len(grow') = 0 /\ KeysOf(grow') = {}
          /\ KeysOf(main') = Inserted'
          /\ BucketList_len(main') = Cardinality(Inserted')
          /\ \A k \in Inserted' : BucketList_get(main', k) = shadow'[k]]_vars

\* the second swap: the active bank went from 2 to 4 buckets and holds the
\* key just inserted
C15_Witness ==
    /\ op.path = "swap" /\ b_len(main) = 4 /\ b_len(grow) = 2
    /\ BucketList_len(grow) = 0
    /\ BucketList_get(main, op.k) = Some(op.v)

\* C16 as stated (Migrating-state cursor bound): whenever n_moved > 0, n_moved
\* is less than the active bank's bucket count and both banks hold entries.
C16_CursorBelowBucketCount ==
    n_moved > 0 =>
        /\ n_moved < b_len(main)
        /\ BucketList_len(main) > 0
        /\ BucketList_len(grow) > 0

\* C16 amended: whenever n_moved > 0, n_moved is at most the active bank's
\* bucket count and the map holds entries; n_moved equals the bucket count
\* from the drain of the last bucket until the swap, and then the active bank
\* is empty and the overflow bank holds everything; the overflow bank holds
\* entries from the second drained bucket on (it is empty right after a start
\* that drained an empty bucket 0).
C16_CursorAtMostBucketCount ==
    n_moved > 0 =>
        /\ n_moved <= b_len(main)
        /\ HMap_len(Self) > 0
        /\ n_moved = b_len(main) =>
              (BucketList_len(main) = 0 /\ BucketList_len(grow) > 0)
        /\ n_moved >= 2 => BucketList_len(grow) > 0

\* the start of a migration drained an empty bucket 0: the overflow bank
\* holds nothing while the cursor is below the bucket count
C16_Witness ==
    /\ n_moved = 1 /\ b_len(main) = 2
    /\ BucketList_len(grow) = 0 /\ BucketList_len(main) > BSIZE \div 2

\* C17 (Migrating-state capacity): whenever n_moved > 0 the overflow bank has
\* twice the buckets of the active bank, and no step between the start of a
\* migration and its swap changes either bucket count, also when the overflow
\* bank is the smaller bank of an earlier migration.
C17_MigratingCapacity ==
    [][/\ n_moved' > 0 => b_len(grow') = 2 * b_len(main')
       /\ (n_moved > 0 /\ n_moved' > 0) =>
             (b_len(main') = b_len(main) /\ b_len(grow') = b_len(grow))]_vars

\* the second migration, whose overflow bank was the 1-bucket active bank of
\* the first one, after its last drain step
C17_Witness ==
    /\ op.path = "drain" /\ n_moved = 2
    /\ b_len(main) = 2 /\ b_len(grow) = 4

\* C18 (Stable-state emptiness): whenever n_moved = 0 the overflow bank holds
\* no entry, so len() is the active bank's entry count and no lookup in the
\* overflow bank hits.
C18_StableGrowIsEmpty ==
    n_moved = 0 =>
        /\ BucketList_len(grow) = 0
        /\ \A i \in 1..b_len(grow) : grow.buckets[i] = << >>
        /\ HMap_len(Self) = BucketList_len(main)
        /\ \A k \in Keys : BucketList_get(grow, k) = None

\* a key was overwritten in the Stable state after the second swap, where the
\* overflow bank is the drained 2-bucket bank
C18_Witness ==
    /\ n_moved = 0 /\ b_len(grow) = 2 /\ op.path = "update"
    /\ BucketList_len(main) = 9

\* C19 as stated (Stable-state bank shape): whenever n_moved = 0 the overflow
\* bank has as many buckets as the active bank.
C19_StableSameBucketCount == n_moved = 0 => b_len(grow) = b_len(main)

\* C19 amended: whenever n_moved = 0, the two banks have one bucket each until
\* the first migration starts, and after every completed migration the
\* overflow bank (the drained old active bank) has half the buckets of the
\* active bank.
C19_StableGrowIsHalf ==
    n_moved = 0 =>
        IF b_len(main) = 1
        THEN b_len(grow) = 1
        ELSE 2 * b_len(grow) = b_len(main)

\* a lookup in the Stable state after the first swap: 2 buckets against 1
C19_Witness ==
    /\ op.name = "get" /\ n_moved = 0
    /\ b_len(main) = 2 /\ b_len(grow) = 1

\* C20: the migration cursor never exceeds the active bank's bucket count:
\* 0 <= n_moved <= b_len(main) in every reachable state.
C20_CursorNeverExceedsBucketCount == 0 <= n_moved /\ n_moved <= b_len(main)

\* the cursor has reached the bucket count of a 2-bucket active bank
C20_Witness ==
    /\ n_moved = b_len(main) /\ b_len(main) = 2
    /\ op.name = "insert" /\ op.path = "drain"

\* C21 (Bank bookkeeping): for each of the two banks, in every reachable
\* state, the entry count len is the sum of the lengths of its chains, and
\* the bank has at least one bucket.
C21_BankBookkeeping ==
    /\ BucketList_len(main) = ChainSum(main, 1)
    /\ BucketList_len(grow) = ChainSum(grow, 1)
    /\ b_len(main) >= 1 /\ b_len(grow) >= 1

\* the start of the second migration left entries in the active bank and put
\* entries in several chains of the overflow bank
C21_Witness ==
    /\ op.path = "start" /\ b_len(main) = 2 /\ n_moved = 1
    /\ BucketList_len(main) > 0
    /\ Cardinality({i \in 1..b_len(grow) : grow.buckets[i] # << >>}) >= 2

\* C22 (Placement): in every reachable state every entry (k, v) of a bank sits
\* in chain hash(the bank's seed, k) mod (the bank's bucket count), so the
\* lookup that scans only that chain finds it; a bank's bucket count changes
\* only while the bank holds no entry, and each bank keeps its own seed across
\* the swap.
C22_Placement ==
    /\ [](/\ Placed(main) /\ Placed(grow)
          /\ \A k \in KeysOf(main) : BucketList_get(main, k) # None
          /\ \A k \in KeysOf(grow) : BucketList_get(grow, k) # None)
    /\ [][IF op'.path = "swap"
          THEN /\ main'.seed = grow.seed /\ grow'.seed = main.seed
               /\ b_len(main') = b_len(grow) /\ b_len(grow') = b_len(main)
          ELSE /\ main'.seed = main.seed /\ grow'.seed = grow.seed
               /\ b_len(main') = b_len(main)
               /\ b_len(grow') # b_len(grow) =>
                     (BucketList_len(grow) = 0 /\ KeysOf(grow) = {})]_vars

\* the second swap made the 4-bucket bank, whose seed differs from the other
\* bank's, the active bank, with entries in several chains
C22_Witness ==
    /\ op.path = "swap" /\ b_len(main) = 4 /\ main.seed # grow.seed
    /\ Cardinality({i \in 1..b_len(main) : main.buckets[i] # << >>}) >= 2

\* C23 (No duplicate keys within a bank): in every reachable state each key
\* occurs at most once among all chains of a bank: push is only reached, from
\* insert and from the replay of a drained bucket, with a key that the target
\* bank does not hold.
C23_NoDuplicateKeysInBank ==
    \A k \in Keys :
        /\ Cardinality(Places(main, k)) <= 1
        /\ Cardinality(Places(grow, k)) <= 1

\* a key was inserted again during the second migration, while the active
\* bank and the overflow bank both held entries
C23_Witness ==
    /\ op.path = "update" /\ n_moved = 1 /\ b_len(main) = 2
    /\ BucketList_len(main) > 0 /\ BucketList_len(grow) > 0

\* C24 (A migration step conserves entries): move_bucket (start, drain step
\* or swap) leaves the set of (key, value) pairs held by the two banks
\* together and len() unchanged; a start or drain step moves exactly the
\* entries of chain n_moved of the active bank into the overflow bank, so the
\* active bank's entry count drops and the overflow bank's rises by that
\* chain's length.
C24_StepConservesEntries ==
    [][op'.path \in {"start", "drain", "swap"} =>
          LET pre == BeforeMove(op'.k, op'.v)
              chain == pre.main.buckets[pre.n_moved + 1]
          IN  /\ Entries(main') \cup Entries(grow')
                    = Entries(pre.main) \cup Entries(pre.grow)
              /\ HMap_len(Self') = HMap_len(pre)
              /\ op'.path = "swap" =>
                    (Entries(main') = Entries(pre.grow)
                        /\ Entries(grow') = Entries(pre.main))
              /\ op'.path # "swap" =>
                    /\ Entries(grow') = Entries(pre.grow) \cup {chain[j] : j \in 1..Len(chain)}
                    /\ Entries(main') = Entries(pre.main) \ {chain[j] : j \in 1..Len(chain)}
                    /\ main'.buckets[pre.n_moved + 1] = << >>
                    /\ BucketList_len(main') = BucketList_len(pre.main) - Len(chain)
                    /\ BucketList_len(grow') = BucketList_len(pre.grow) + Len(chain)]_vars

\* a drain step moved a chain longer than BSIZE / 2 out of bucket 1 of the
\* active bank
C24_Witness ==
    /\ op.path = "drain" /\ n_moved = 2 /\ b_len(main) = 2
    /\ BucketList_len(main) = 0
    /\ Cardinality({k \in Inserted \ {op.k} : h_of(main, k) = 2}) > BSIZE \div 2

\* C25 (Single-bucket migration): in a map whose active bank has one bucket,
\* the insert that starts the first migration drains bucket 0, which is the
\* first and the last bucket, and sets n_moved = 1; the next insert of a new
\* key performs the swap, after which n_moved = 0, the active bank has 2
\* buckets and every key inserted so far is read back with its value.
C25_SingleBucketMigration ==
    [][(op'.name = "insert" /\ HMap_get(Self, op'.k) = None /\ b_len(main) = 1) =>
          IF n_moved = 0
          THEN IF Cardinality(Inserted') > BSIZE \div 2
               THEN /\ op'.path = "start"
                    /\ n_moved' = 1 /\ b_len(main') = 1
                    /\ main'.buckets[1] = << >> /\ BucketList_len(main') = 0
                    /\ b_len(grow') = 2
                    /\ \A k \in Inserted' : BucketList_get(grow', k) = shadow'[k]
               ELSE op'.path = "push" /\ n_moved' = 0
          ELSE /\ op'.path = "swap"
               /\ n_moved = 1 /\ n_moved' = 0
               /\ b_len(main') = 2 /\ b_len(grow') = 1
               /\ \A k \in Inserted' : HMap_get(Self', k) = shadow'[k]
               /\ \A k \in Keys \ Inserted' : HMap_get(Self', k) = None]_vars

\* the first swap has been performed by the 6th new key, and one of the
\* earlier keys carries the tag value
C25_Witness ==
    /\ op.path = "swap" /\ n_moved = 0 /\ b_len(main) = 2
    /\ Cardinality(Inserted) = 6
    /\ \E k \in Inserted \ {op.k} : HMap_get(Self, k) = Some(2)

\* C26: bucket(i) with i < bucket count returns the whole chain i, leaves
\* chain i empty, lowers the entry count by exactly that chain's length and
\* leaves every other chain and the bucket count unchanged; with
\* i >= bucket count it returns None and leaves the bank unchanged.  Checked
\* for every bank of every reachable state and every i up to one past the
\* bucket count.
C26_BucketTakesChain ==
    /\ \A i \in 0..(b_len(main) + 1) : BucketTakes(main, i)
    /\ \A i \in 0..(b_len(grow) + 1) : BucketTakes(grow, i)

\* move_bucket has just got None from bucket(2) of the 2-bucket bank and
\* swapped; the 4-bucket bank holds empty and non-empty chains
C26_Witness ==
    /\ op.path = "swap" /\ b_len(grow) = 2 /\ b_len(main) = 4
    /\ BucketList_len(main) > BSIZE
    /\ \E i \in 1..4 : main.buckets[i] = << >>
    /\ \E i \in 1..4 : Len(main.buckets[i]) > 1

\* C27: in every reachable state get_mut(k) is Some exactly when get(k) is
\* Some and points into the entry get(k) reads, and a value written through
\* the returned reference is what the next get(k) returns; the call, with the
\* caller's write, changes neither the cursor nor a bucket count or an entry
\* count, changes nothing at all on a miss, and leaves every key with the
\* last value written for it.
C27_GetMutAgreesWithGet ==
    /\ [](\A k \in Keys :
             LET g == HMap_get(Self, k)
                 r == HMap_get_mut(Self, k)
             IN  /\ (r = None) <=> (g = None)
                 /\ r # None =>
                       /\ At(Self, r[1]) = << k, g[1] >>
                       /\ (r[1][1] = "main") <=> (BucketList_get(main, k) # None)
                       /\ \A v \in Values :
                             HMap_get(write(Self, r[1], v), k) = Some(v))
    /\ [][op'.name = "get_mut" =>
             /\ ~panicked'
             /\ n_moved' = n_moved
             /\ b_len(main') = b_len(main) /\ b_len(grow') = b_len(grow)
             /\ main'.len = main.len /\ grow'.len = grow.len
             /\ op'.found = None => (main' = main /\ grow' = grow /\ shadow' = shadow)
             /\ \A k \in Inserted' : HMap_get(Self', k) = shadow'[k]]_vars

\* get_mut found the tagged key in the overflow bank, the active bank being
\* drained and the swap pending, and the common value was written over the tag
C27_Witness ==
    /\ op.name = "get_mut" /\ op.found = Some(2)
    /\ n_moved = b_len(main) /\ BucketList_len(main) = 0 /\ BucketList_len(grow) > 0
    /\ \A k \in Inserted : HMap_get(Self, k) = Some(1)

\* C28 (Migration completes): if new keys keep being inserted, a map with a
\* migration running (n_moved > 0) eventually is Stable again (n_moved = 0),
\* for every migration the keys of the model suffice to complete; and a step
\* that is a lookup, a get_mut or an insert of a present key never changes
\* the cursor of a running migration.
C28_MigrationCompletes ==
    /\ (n_moved > 0 /\ ~panicked /\ Cardinality(Inserted) + KeysToStable <= MaxKey)
          ~> (n_moved = 0)
    /\ [][(n_moved > 0 /\ ~(op'.name = "insert" /\ op'.found = None)) =>
             n_moved' = n_moved]_vars

\* the second migration has completed, and a key other than the last one
\* inserted carries the tag value
C28_Witness ==
    /\ op.path = "swap" /\ n_moved = 0 /\ b_len(main) = 4 /\ b_len(grow) = 2
    /\ \E k \in Inserted \ {op.k} : HMap_get(Self, k) = Some(2)

\* C29 (Migration length): a migration that starts when the active bank has N
\* buckets is back in the Stable state at exactly the N-th insert of a new
\* key after the insert that started it: the j-th of them, j < N, drains
\* bucket j (n_moved = j + 1) and the N-th swaps, however many updates,
\* lookups and get_mut calls come in between.
C29_MigrationLength ==
    /\ [](n_moved > 0 => (n_moved = SinceStart + 1 /\ SinceStart < b_len(main)))
    /\ [][/\ op'.path = "start" => (started' = Cardinality(Inserted') /\ n_moved' = 1)
          /\ n_moved > 0 =>
                IF op'.name = "insert" /\ op'.found = None
                THEN IF SinceStart + 1 = b_len(main)
                     THEN op'.path = "swap" /\ n_moved' = 0
                     ELSE op'.path = "drain" /\ n_moved' = SinceStart + 2
                ELSE n_moved' = n_moved /\ started' = started]_vars

\* the second migration, started with 2 buckets, ended at the 2nd new key
\* after its start, and a key other than that one carries the tag value
C29_Witness ==
    /\ op.path = "swap" /\ b_len(grow) = 2 /\ SinceStart = 2
    /\ \E k \in Inserted : k # op.k /\ HMap_get(Self, k) = Some(2)

\* C30 (Drained prefix): in every reachable state with n_moved > 0, chains
\* 0 .. n_moved - 1 of the active bank are empty, and every key of the map
\* that hashes to one of them is held by the overflow bank only.
C30_DrainedPrefix ==
    n_moved > 0 =>
        /\ n_moved <= b_len(main)
        /\ \A i \in 1..n_moved : main.buckets[i] = << >>
        /\ \A k \in Inserted :
              h_of(main, k) <= n_moved =>
                  /\ k \notin KeysOf(main)
                  /\ BucketList_get(main, k) = None
                  /\ BucketList_get(grow, k) = shadow[k]

\* a lookup found the tagged key, drained out of bucket 0 of the 2-bucket
\* active bank, while bucket 1 still held entries
C30_Witness ==
    /\ op.name = "get" /\ op.found = Some(2)
    /\ n_moved = 1 /\ b_len(main) = 2 /\ BucketList_len(main) > 0
    /\ \E k \in Inserted : h_of(main, k) = 1 /\ BucketList_get(grow, k) = Some(2)

\* C31 (Capacity is monotone): the active bank's bucket count is always a
\* power of two, never decreases, and changes only at the swap that ends a
\* migration, where it exactly doubles.
C31_CapacityMonotone ==
    /\ [](b_len(main) \in {2 ^ e : e \in 0..MaxKey})
    /\ [][/\ b_len(main') >= b_len(main)
          /\ b_len(main') # b_len(main) => op'.path = "swap"
          /\ op'.path = "swap" => b_len(main') = 2 * b_len(main)]_vars

\* get_mut hit in the Stable state after the second swap: the active bank
\* went from 1 over 2 to 4 buckets
C31_Witness ==
    /\ op.name = "get_mut" /\ op.found # None
    /\ n_moved = 0 /\ b_len(main) = 4 /\ b_len(grow) = 2

\* C32 as stated (Stable chains respect the threshold): whenever n_moved = 0,
\* no chain of the active bank is longer than BSIZE / 2 = 4.
C32_StableChainsAtMostThreshold ==
    n_moved = 0 => \A i \in 1..b_len(main) : Len(main.buckets[i]) <= BSIZE \div 2

\* C32 amended: until the first migration starts (one bucket, n_moved = 0) no
\* chain of the active bank is longer than BSIZE / 2; the swap compares no
\* chain length, so later Stable states can hold longer chains, and such a
\* chain is as the swap left it: a step from a Stable state to a Stable state
\* never lengthens a chain beyond BSIZE / 2, because the push that would do so
\* starts a migration in the same call.
C32_StableChainsLongOnlyBySwap ==
    /\ []((n_moved = 0 /\ b_len(main) = 1) =>
             Len(main.buckets[1]) <= BSIZE \div 2)
    /\ [][(n_moved = 0 /\ n_moved' = 0) =>
             /\ b_len(main') = b_len(main)
             /\ \A i \in 1..b_len(main) :
                   Len(main'.buckets[i]) > BSIZE \div 2 =>
                       Len(main'.buckets[i]) = Len(main.buckets[i])]_vars

\* a key was overwritten in the Stable state while a chain of the active
\* bank held more than BSIZE / 2 entries
C32_Witness ==
    /\ op.name = "insert" /\ op.path = "update" /\ n_moved = 0
    /\ \E i \in 1..b_len(main) : Len(main.buckets[i]) > BSIZE \div 2

\* C33 (GenManager): next() re-activates the most recently dropped slot with
\* its generation increased by exactly 1 if a dropped slot is left, and
\* otherwise appends a fresh slot of generation 0; no GenData it returns was
\* returned before; drop(g) with a stale generation, an inactive slot or an
\* out-of-range pos changes nothing, and a matching drop de-activates the
\* slot and puts it on the stack of dropped slots.
C33_GenManager ==
    /\ [](\A p \in 0..(Len(gm.items) - 1) :
             /\ ~gm.items[p + 1].active <=> p \in Range(gm.drops)
             /\ Cardinality({i \in 1..Len(gm.drops) : gm.drops[i] = p}) <= 1)
    /\ [][eop'.name = "next" =>
             LET g == eop'.g
             IN  /\ g \notin issued
                 /\ IF gm.drops # << >>
                    THEN LET loc == gm.drops[Len(gm.drops)]
                         IN  /\ g = GenData(loc, gm.items[loc + 1].gen + 1)
                             /\ gm'.items = [gm.items EXCEPT ![loc + 1] =
                                               [active |-> TRUE, gen |-> @.gen + 1]]
                             /\ gm'.drops = SubSeq(gm.drops, 1, Len(gm.drops) - 1)
                    ELSE /\ g = GenData(Len(gm.items), 0)
                         /\ gm'.items = Append(gm.items, [active |-> TRUE, gen |-> 0])
                         /\ gm'.drops = << >>]_vars
    /\ [][eop'.name = "drop" =>
             LET g == eop'.g
             IN  IF /\ g.pos < Len(gm.items)
                    /\ gm.items[g.pos + 1].active
                    /\ gm.items[g.pos + 1].gen = g.gen
                 THEN /\ gm'.items = [gm.items EXCEPT ![g.pos + 1].active = FALSE]
                      /\ gm'.drops = Append(gm.drops, g.pos)
                 ELSE gm' = gm]_vars

\* slots 0 and 1 were dropped in this order and next() has re-activated
\* slot 1, the one dropped last, with generation 1
C33_Witness ==
    /\ eop.name = "next" /\ eop.g = GenData(1, 1)
    /\ gm.drops = << 0 >> /\ gm.items[2] = [active |-> TRUE, gen |-> 1]
    /\ GenData(1, 0) \in issued

\* C34 (VecStore): get(g) is the stored value if slot g.pos is occupied with
\* generation exactly g.gen and None otherwise, and changes nothing; right
\* after add(g, t), get(g) is Some(t); drop(g) on a matching GenData empties
\* the slot, so get(g) is None afterwards; drop with a GenData whose
\* generation differs from the stored one (or whose slot is empty or out of
\* range) leaves the store untouched.
C34_VecStore ==
    /\ [](\A g \in Handles :
             VecStore_get(vs, g) =
                 IF Occupied(vs, g) THEN Some(vs[g.pos + 1][1][2]) ELSE None)
    /\ [][eop'.name = "get" =>
             /\ vs' = vs
             /\ eop'.res # None => (Occupied(vs, eop'.g)
                                      /\ eop'.res = Some(vs[eop'.g.pos + 1][1][2]))
             /\ eop'.res = None => ~Occupied(vs, eop'.g)]_vars
    /\ [][eop'.name = "add" =>
             /\ VecStore_get(vs', eop'.g) # None
             /\ \A i \in 1..Len(vs) : i # eop'.g.pos + 1 => vs'[i] = vs[i]]_vars
    /\ [][eop'.name = "drop" =>
             IF Occupied(vs, eop'.g)
             THEN /\ vs' = [vs EXCEPT ![eop'.g.pos + 1] = None]
                  /\ VecStore_get(vs', eop'.g) = None
             ELSE vs' = vs]_vars

\* drop was called with the stale GenData (0, 0) while slot 0 held a value of
\* generation 1, which is still there
C34_Witness ==
    /\ eop.name = "drop" /\ eop.g = GenData(0, 0)
    /\ Len(vs) = 2 /\ vs[1] = Some(<< 1, 2 >>)
    /\ VecStore_get(vs, GenData(0, 1)) = Some(2)

\* C35 (push): on either bank of any reachable map and for every key and
\* value, push(k, v) appends (k, v) at the end of chain hash(seed, k) mod
\* bucket count, adds exactly 1 to the entry count, returns the new length of
\* that chain and leaves the seed, the bucket count and every other chain
\* unchanged, whether or not the chain already holds the key.
C35_Push ==
    \A bl \in {main, grow} : \A k \in Keys : \A v \in Values :
        LET r == push(bl, k, v)
            h == (hash(bl.seed, k) % Len(bl.buckets)) + 1
        IN  /\ r.bl.buckets[h] = Append(bl.buckets[h], << k, v >>)
            /\ r.bl.len = bl.len + 1
            /\ r.ret = Len(bl.buckets[h]) + 1
            /\ Len(r.bl.buckets) = Len(bl.buckets)
            /\ \A i \in 1..Len(bl.buckets) : i # h => r.bl.buckets[i] = bl.buckets[i]
            /\ r.bl.seed = bl.seed

\* an insert has pushed a new key behind three others in a chain of a bank of
\* 2 buckets; pushing that key once more would put it in the chain twice
C35_Witness ==
    /\ op.name = "insert" /\ op.path = "push" /\ b_len(main) = 2
    /\ LET c == main.buckets[h_of(main, op.k)]
       IN  /\ Len(c) = 4 /\ c[4] = << op.k, op.v >>
           /\ push(main, op.k, op.v).ret = 5

\* C36 (set_buckets): on either bank of any reachable map and for every n,
\* set_buckets(n) leaves a bank of max(old bucket count, n) buckets whose
\* first old-count chains, entry count and seed are the old ones and whose
\* appended chains are empty; with at least n buckets already, the bank is
\* unchanged.
C36_SetBucketsNeverShrinks ==
    \A bl \in {main, grow} : \A n \in 0..(2 * Len(main.buckets)) :
        LET nb == set_buckets(bl, n)
            old == Len(bl.buckets)
        IN  /\ Len(nb.buckets) = IF old >= n THEN old ELSE n
            /\ \A i \in 1..old : nb.buckets[i] = bl.buckets[i]
            /\ \A i \in (old + 1)..Len(nb.buckets) : nb.buckets[i] = << >>
            /\ nb.len = bl.len /\ nb.seed = bl.seed
            /\ old >= n => nb = bl

\* a migration has started from a bank of 2 buckets: set_buckets(4) grew the
\* overflow bank from 1 to 4 buckets, and set_buckets with a smaller n would
\* leave the 2 buckets of the active bank
C36_Witness ==
    /\ op.path = "start" /\ b_len(main) = 2 /\ b_len(grow) = 4
    /\ set_buckets(main, 1) = main

====
